---- MODULE Spec2Model ----
(***************************************************************************)
(* RC4 stream cipher (src/src/lib.rs) and its command-line wrapper         *)
(* (src/src/main.rs).                                                      *)
(*                                                                         *)
(* Spec    : a caller of the library: RC4::new(key), then a sequence of    *)
(*           xor_keystream_with calls over consecutive chunks of an input, *)
(*           then a decryption with a second, fresh RC4::new(key).         *)
(* SpecCLI : one run of main(): open input, read key, create output,       *)
(*           copy loop, return and drop of the buffered writer.            *)
(***************************************************************************)
EXTENDS Naturals, Sequences, FiniteSets

VARIABLES
    pc,        \* library caller: "new", "stream", "decrypted", or "off"
    key,       \* the key bytes handed to RC4::new
    plain,     \* the caller's whole input
    rc4,       \* the RC4 struct: [state, i, j]
    pos,       \* number of input bytes already passed to xor_keystream_with
    output,    \* the transformed chunks, concatenated
    calls,     \* number of xor_keystream_with calls made so far
    sawEmpty,  \* some call so far was given an empty slice
    back,      \* result of decrypting `output` with a second RC4::new(key)
    \* main(), which shares key, plain (the input file's content), rc4 and pos
    \* (the number of input bytes read so far)
    cpc,         \* position in main, or "off"
    inOpenable,  \* File::open(args.input) will succeed
    keyReadable, \* fs::read(args.key) will succeed
    keyFile,     \* content of the key file
    outExists,   \* the output path exists
    existed,     \* the output path existed when main started
    created,     \* File::create_new(args.output) has returned Ok
    outFile,     \* content of the file at the output path
    wbuf,        \* bytes held by the BufWriter
    chunk,       \* processed_data[..len]
    result,      \* what main returns: "none" so far, "Ok", or the error
    exit,        \* "running", "success" or "failure"
    stderr,      \* what was printed to stderr
    stdout,      \* what was printed to stdout
    failed       \* the I/O operations that failed during the run

libonly == <<pc, output, calls, sawEmpty, back>>

clionly == <<cpc, inOpenable, keyReadable, keyFile, outExists, existed, created,
             outFile, wbuf, chunk, result, exit, stderr, stdout, failed>>

vars == <<pc, key, plain, rc4, pos, output, calls, sawEmpty, back,
          cpc, inOpenable, keyReadable, keyFile, outExists, existed, created,
          outFile, wbuf, chunk, result, exit, stderr, stdout, failed>>

(***************************************************************************)
(* Program constants and bounds.                                           *)
(***************************************************************************)
\* length of the permutation array, [u8; 256]
N == 256
\* length of main's processed_data buffer, [0u8; 256]
BufLen == 256
\* width of u8
U8Bits == 8

\* chunk lengths 0..MaxChunk are tried at every position of the input
MaxChunk == 3
\* keys of N+1 .. N+MaxExtra bytes are tried
MaxExtra == 2
\* the long input has BufLen + MaxTail bytes
MaxTail == 2
\* the caller makes at most MaxCalls calls of xor_keystream_with
MaxCalls == 4
\* the input file of a run of main has 0 .. MaxFileLen bytes
MaxFileLen == 4
\* capacity of the BufWriter, scaled down from the standard library's 8 KiB
\* so that an input of MaxFileLen bytes fills it
WriterCap == 3

Bytes == 0 .. 255

(***************************************************************************)
(* u8 arithmetic.                                                          *)
(***************************************************************************)
\* u8::saturating_add: a mutant of wrapping_add
saturating_add(a, b) == IF a + b > 255 THEN 255 ELSE a + b

\* u8::wrapping_add
wrapping_add(a, b) == (a + b) % 256

RECURSIVE BitXor(_, _, _)
BitXor(a, b, n) ==
    IF n = 0 THEN 0
    ELSE (((a % 2) + (b % 2)) % 2) + 2 * BitXor(a \div 2, b \div 2, n - 1)

\* a mutant of Xor8: the keystream byte is added instead
Add8(a, b) == (a + b) % 256

\* u8 ^ u8
Xor8(a, b) == BitXor(a, b, U8Bits)

(***************************************************************************)
(* The RC4 struct and its methods.                                         *)
(***************************************************************************)
\* a mutant of swap: the second store is lost
swap_lossy(state, a, b) == [state EXCEPT ![a] = state[b]]

\* <[u8]>::swap(a, b)
swap(state, a, b) == [state EXCEPT ![a] = state[b], ![b] = state[a]]

\* a mutant of CycleNext: key.iter() without cycle()
PlainNext(k, kpos) ==
    IF kpos <= Len(k) THEN [some |-> TRUE, val |-> k[kpos], kpos |-> kpos + 1]
    ELSE [some |-> FALSE, val |-> 0, kpos |-> kpos]

\* key.iter().cycle(): `kpos` is the 1-based index of the inner iterator's
\* next element, Len(key) + 1 when it is exhausted.  On exhaustion the inner
\* iterator is replaced by a clone of the original and asked again.
CycleNext(k, kpos) ==
    IF kpos <= Len(k) THEN [some |-> TRUE, val |-> k[kpos], kpos |-> kpos + 1]
    ELSE IF Len(k) = 0 THEN [some |-> FALSE, val |-> 0, kpos |-> kpos]
    ELSE [some |-> TRUE, val |-> k[1], kpos |-> 2]

\* one iteration of the for loop of key_scheduling_algorithm.  `it` holds the
\* permutation, the local j, the position of the key iterator, and whether
\* the zip has ended (one of its two iterators returned None)
KsaIter(it, k, i) ==
    IF it.ended THEN it
    ELSE LET nx == CycleNext(k, it.kpos) IN
         IF ~nx.some THEN [it EXCEPT !.ended = TRUE]
         ELSE LET j2 == wrapping_add(wrapping_add(it.j, it.state[i]), nx.val)
              IN  [state |-> swap(it.state, i, j2), j |-> j2,
                   kpos |-> nx.kpos, ended |-> FALSE]

\* iterations lo .. hi-1 of that loop, in order
RECURSIVE KsaLoop(_, _, _, _)
KsaLoop(it, k, lo, hi) ==
    IF it.ended \/ lo >= hi THEN it
    ELSE IF hi = lo + 1 THEN KsaIter(it, k, lo)
    ELSE LET mid == (lo + hi) \div 2
         IN  KsaLoop(KsaLoop(it, k, lo, mid), k, mid, hi)

\* the body of key_scheduling_algorithm: the identity fill, then the loop
\* over 0..256 zipped with the cycled key
KsaBody(k) ==
    KsaLoop([state |-> [index \in 0 .. N - 1 |-> index % 256], j |-> 0,
             kpos |-> 1, ended |-> FALSE], k, 0, 256).state

\* a mutant of key_scheduling_algorithm: of a key longer than the permutation
\* the last bytes are scheduled, not the first
ksa_last_bytes(self, k) ==
    [self EXCEPT !.state =
        KsaBody(IF Len(k) > N THEN SubSeq(k, Len(k) - N + 1, Len(k)) ELSE k)]

\* a mutant of key_scheduling_algorithm: an early return on an empty key
ksa_early_return(self, k) ==
    IF Len(k) = 0 THEN self ELSE [self EXCEPT !.state = KsaBody(k)]

\* RC4::key_scheduling_algorithm
key_scheduling_algorithm(self, k) == [self EXCEPT !.state = KsaBody(k)]

\* the struct literal of RC4::new, before the KSA
Blank == [state |-> [x \in 0 .. N - 1 |-> 0], i |-> 0, j |-> 0]

\* RC4::new
new(k) == key_scheduling_algorithm(Blank, k)

\* a mutant of pseudo_random_generation: the counter i saturates at 255
prga_saturating(self) ==
    LET i2 == saturating_add(self.i, 1)
        j2 == wrapping_add(self.j, self.state[i2])
        s2 == swap(self.state, i2, j2)
        keystream_index == wrapping_add(s2[i2], s2[j2])
    IN  [self |-> [state |-> s2, i |-> i2, j |-> j2],
         byte |-> s2[keystream_index], index |-> keystream_index]

\* RC4::pseudo_random_generation: the struct after the call, the byte returned
\* and the index it was read at
pseudo_random_generation(self) ==
    LET i2 == wrapping_add(self.i, 1)
        j2 == wrapping_add(self.j, self.state[i2])
        s2 == swap(self.state, i2, j2)
        keystream_index == wrapping_add(s2[i2], s2[j2])
    IN  [self |-> [state |-> s2, i |-> i2, j |-> j2],
         byte |-> s2[keystream_index], index |-> keystream_index]

\* one call of the closure of xor_keystream_with, on element n of data
XorIter(it, n) ==
    LET r == pseudo_random_generation(it.self)
    IN  [self |-> r.self, data |-> [it.data EXCEPT ![n] = Xor8(it.data[n], r.byte)]]

\* the for_each of xor_keystream_with over elements lo .. hi-1, in order
RECURSIVE XorLoop(_, _, _)
XorLoop(it, lo, hi) ==
    IF lo > Len(it.data) \/ lo >= hi THEN it
    ELSE IF hi = lo + 1 THEN XorIter(it, lo)
    ELSE LET mid == (lo + hi) \div 2
         IN  XorLoop(XorLoop(it, lo, mid), mid, hi)

\* a mutant of xor_keystream_with: both counters are reset on entry
xor_resetting(self, data) ==
    XorLoop([self |-> [self EXCEPT !.i = 0, !.j = 0], data |-> data], 1, Len(data) + 1)

\* RC4::xor_keystream_with: the struct and the slice after the call
xor_keystream_with(self, data) ==
    XorLoop([self |-> self, data |-> data], 1, Len(data) + 1)

(***************************************************************************)
(* Inputs.                                                                 *)
(***************************************************************************)
\* "Key", "Wiki", "Secret"
KeyKey == <<75, 101, 121>>
KeyWiki == <<87, 105, 107, 105>>
KeySecret == <<83, 101, 99, 114, 101, 116>>
\* "Plaintext", "pedia", "Attack at dawn"
TextPlaintext == <<80, 108, 97, 105, 110, 116, 101, 120, 116>>
TextPedia == <<112, 101, 100, 105, 97>>
TextAttack == <<65, 116, 116, 97, 99, 107, 32, 97, 116, 32, 100, 97, 119, 110>>
\* the ciphertexts the tests expect
CipherPlaintext == <<187, 243, 22, 232, 217, 64, 175, 10, 211>>
CipherPedia == <<16, 33, 191, 4, 32>>
CipherAttack == <<69, 160, 31, 100, 95, 195, 91, 56, 53, 82, 84, 75, 155, 245>>

\* a key of n bytes; the bytes past index N do not repeat the first ones
GenKey(n) == [x \in 1 .. n |-> (7 * x + 11 + 5 * (x \div (N + 1))) % 256]

\* an input of n bytes
GenText(n) == [x \in 1 .. n |-> (13 * x + 200) % 256]

KeyLens == {0, 1, 2, N - 1, N} \cup (N + 1 .. N + MaxExtra)

TextLens == {0, 1, MaxChunk + 1, BufLen + MaxTail}

Cases ==
    {<<KeyKey, TextPlaintext>>, <<KeyWiki, TextPedia>>, <<KeySecret, TextAttack>>}
    \cup {<<GenKey(n), GenText(m)>> : n \in KeyLens, m \in TextLens}

(***************************************************************************)
(* The library's caller.                                                   *)
(***************************************************************************)
\* main is not running
CliOff ==
    /\ cpc = "off"
    /\ inOpenable = FALSE /\ keyReadable = FALSE /\ keyFile = <<>>
    /\ outExists = FALSE /\ existed = FALSE /\ created = FALSE
    /\ outFile = <<>> /\ wbuf = <<>> /\ chunk = <<>>
    /\ result = "none" /\ exit = "running"
    /\ stderr = <<>> /\ stdout = <<>> /\ failed = {}

Init ==
    /\ \E c \in Cases : key = c[1] /\ plain = c[2]
    /\ pc = "new"
    /\ rc4 = Blank
    /\ pos = 0
    /\ output = <<>>
    /\ calls = 0
    /\ sawEmpty = FALSE
    /\ back = <<>>
    /\ CliOff

\* let mut rc4 = RC4::new(key)
New ==
    /\ pc = "new"
    /\ rc4' = new(key)
    /\ pc' = "stream"
    /\ UNCHANGED <<key, plain, pos, output, calls, sawEmpty, back>>
    /\ UNCHANGED clionly

\* the chunk lengths tried with `rem` bytes left: short ones, the lengths a
\* read into processed_data returns when it fills the buffer or misses one
\* byte of it, and everything that is left
ChunkLens(rem) == {n \in (0 .. MaxChunk) \cup {BufLen - 1, BufLen, rem} : n <= rem}

\* rc4.xor_keystream_with(&mut chunk), on the next n bytes of the input
Xor(n) ==
    /\ pc = "stream"
    /\ calls < MaxCalls
    /\ LET r == xor_keystream_with(rc4, SubSeq(plain, pos + 1, pos + n))
       IN  /\ rc4' = r.self
           /\ output' = output \o r.data
    /\ pos' = pos + n
    /\ calls' = calls + 1
    /\ sawEmpty' = (sawEmpty \/ n = 0)
    /\ UNCHANGED <<pc, key, plain, back>>
    /\ UNCHANGED clionly

\* a second RC4::new(key) and one xor_keystream_with over the whole output
Decrypt ==
    /\ pc = "stream"
    /\ pos = Len(plain)
    /\ calls # 0
    /\ back' = xor_keystream_with(new(key), output).data
    /\ pc' = "decrypted"
    /\ UNCHANGED <<key, plain, rc4, pos, output, calls, sawEmpty>>
    /\ UNCHANGED clionly

Next ==
    \/ New
    \/ \E n \in ChunkLens(Len(plain) - pos) : Xor(n)
    \/ Decrypt

Spec == Init /\ [][Next]_vars

(***************************************************************************)
(* main(): one run of the command-line program.                            *)
(***************************************************************************)
\* what the output path holds when it exists before the run
OldContent == <<1, 2, 3>>

CliKeys == {KeyKey, GenKey(N), GenKey(N + 1)}

InitCLI ==
    /\ pc = "off" /\ output = <<>> /\ calls = 0 /\ sawEmpty = FALSE /\ back = <<>>
    /\ key = <<>> /\ rc4 = Blank /\ pos = 0
    /\ plain \in {GenText(m) : m \in 0 .. MaxFileLen}
    /\ keyFile \in CliKeys
    /\ inOpenable \in BOOLEAN
    /\ keyReadable \in BOOLEAN
    /\ existed \in BOOLEAN
    /\ outExists = existed
    /\ outFile = IF existed THEN OldContent ELSE <<>>
    /\ created = FALSE
    /\ cpc = "open_input"
    /\ wbuf = <<>> /\ chunk = <<>>
    /\ result = "none" /\ exit = "running"
    /\ stderr = <<>> /\ stdout = <<>> /\ failed = {}

\* let input = match File::open(args.input) { ... }
OpenInput ==
    /\ cpc = "open_input"
    /\ IF inOpenable
       THEN /\ cpc' = "read_key"
            /\ UNCHANGED <<stderr, result, failed>>
       ELSE /\ stderr' = Append(stderr, "Cannot open input file: ")
            /\ result' = "NotFound"
            /\ failed' = failed \cup {"open"}
            /\ cpc' = "return"
    /\ UNCHANGED <<key, plain, rc4, pos, inOpenable, keyReadable, keyFile, outExists,
                   existed, created, outFile, wbuf, chunk, exit, stdout>>
    /\ UNCHANGED libonly

\* the two warnings about the key's length
KeyWarnings(k) ==
    (IF Len(k) < 256
     THEN <<"Warning: key is less than 256 bytes long, some bytes might be reused">>
     ELSE <<>>)
    \o
    (IF Len(k) > 256
     THEN <<"Warning: key is more than 256 bytes long, these bytes will not be used">>
     ELSE <<>>)

\* let key = match fs::read(args.key) { ... }, and the warnings
ReadKey ==
    /\ cpc = "read_key"
    /\ IF keyReadable
       THEN /\ key' = keyFile
            /\ stdout' = stdout \o KeyWarnings(keyFile)
            /\ cpc' = "create_output"
            /\ UNCHANGED <<stderr, result, failed>>
       ELSE /\ stderr' = Append(stderr, "Cannot read from key file: ")
            /\ result' = "NotFound"
            /\ failed' = failed \cup {"key"}
            /\ cpc' = "return"
            /\ UNCHANGED <<key, stdout>>
    /\ UNCHANGED <<plain, rc4, pos, inOpenable, keyReadable, keyFile, outExists,
                   existed, created, outFile, wbuf, chunk, exit>>
    /\ UNCHANGED libonly

\* a mutant of CreateNewOk: File::create, which truncates an existing file
CreateOk(exists) == TRUE

\* File::create_new succeeds only where nothing exists
CreateNewOk(exists) == ~exists

\* let output = match File::create_new(args.output) { ... }
CreateOutput ==
    /\ cpc = "create_output"
    /\ IF CreateNewOk(outExists)
       THEN /\ outExists' = TRUE
            /\ outFile' = <<>>
            /\ created' = TRUE
            /\ cpc' = "new"
            /\ UNCHANGED <<stderr, result, failed>>
       ELSE /\ stderr' = Append(stderr, "Cannot create output file: ")
            /\ result' = "AlreadyExists"
            /\ failed' = failed \cup {"create"}
            /\ cpc' = "return"
            /\ UNCHANGED <<outExists, outFile, created>>
    /\ UNCHANGED <<key, plain, rc4, pos, inOpenable, keyReadable, keyFile, existed,
                   wbuf, chunk, exit, stdout>>
    /\ UNCHANGED libonly

\* let mut rc4 = RC4::new(key.as_slice())
NewCipher ==
    /\ cpc = "new"
    /\ rc4' = new(key)
    /\ cpc' = "read"
    /\ UNCHANGED <<key, plain, pos, inOpenable, keyReadable, keyFile, outExists,
                   existed, created, outFile, wbuf, chunk, result, exit, stderr,
                   stdout, failed>>
    /\ UNCHANGED libonly

\* input.read(&mut processed_data) returns Ok(n), n > 0
Read(n) ==
    /\ cpc = "read"
    /\ n >= 1 /\ n <= BufLen /\ n <= Len(plain) - pos
    /\ chunk' = SubSeq(plain, pos + 1, pos + n)
    /\ pos' = pos + n
    /\ cpc' = "xor"
    /\ UNCHANGED <<key, plain, rc4, inOpenable, keyReadable, keyFile, outExists,
                   existed, created, outFile, wbuf, result, exit, stderr, stdout,
                   failed>>
    /\ UNCHANGED libonly

\* input.read returns Ok(0) at the end of the input: break, then Ok(())
ReadEof ==
    /\ cpc = "read"
    /\ pos = Len(plain)
    /\ result' = "Ok"
    /\ cpc' = "return"
    /\ UNCHANGED <<key, plain, rc4, pos, inOpenable, keyReadable, keyFile, outExists,
                   existed, created, outFile, wbuf, chunk, exit, stderr, stdout,
                   failed>>
    /\ UNCHANGED libonly

\* input.read returns Err: the ? returns it from main
ReadErr ==
    /\ cpc = "read"
    /\ result' = "ReadError"
    /\ failed' = failed \cup {"read"}
    /\ cpc' = "return"
    /\ UNCHANGED <<key, plain, rc4, pos, inOpenable, keyReadable, keyFile, outExists,
                   existed, created, outFile, wbuf, chunk, exit, stderr, stdout>>
    /\ UNCHANGED libonly

\* rc4.xor_keystream_with(&mut processed_data[..len])
XorChunk ==
    /\ cpc = "xor"
    /\ LET r == xor_keystream_with(rc4, chunk)
       IN  rc4' = r.self /\ chunk' = r.data
    /\ cpc' = "write"
    /\ UNCHANGED <<key, plain, pos, inOpenable, keyReadable, keyFile, outExists,
                   existed, created, outFile, wbuf, result, exit, stderr, stdout,
                   failed>>
    /\ UNCHANGED libonly

\* BufWriter::flush_buf: the held bytes go to the file in a write that succeeds
\* (ok) or fails; nothing is written when nothing is held
FlushBuf(w, file, ok) ==
    IF Len(w) = 0 THEN [err |-> FALSE, wbuf |-> w, file |-> file]
    ELSE IF ok THEN [err |-> FALSE, wbuf |-> <<>>, file |-> file \o w]
    ELSE [err |-> TRUE, wbuf |-> w, file |-> file]

\* BufWriter::write_all: buf is held when it fits; otherwise the held bytes
\* are flushed first when buf exceeds the room left, and buf is written
\* through when it is as long as the capacity
BufWriteAll(w, file, buf, okFlush, okDirect) ==
    IF Len(buf) < WriterCap - Len(w)
    THEN [err |-> FALSE, wbuf |-> w \o buf, file |-> file]
    ELSE LET f == IF Len(buf) > WriterCap - Len(w)
                  THEN FlushBuf(w, file, okFlush)
                  ELSE [err |-> FALSE, wbuf |-> w, file |-> file]
         IN  IF f.err THEN f
             ELSE IF Len(buf) >= WriterCap
             THEN IF okDirect
                  THEN [err |-> FALSE, wbuf |-> f.wbuf, file |-> f.file \o buf]
                  ELSE [err |-> TRUE, wbuf |-> f.wbuf, file |-> f.file]
             ELSE [err |-> FALSE, wbuf |-> f.wbuf \o buf, file |-> f.file]

\* output.write_all(&processed_data[..len])?
WriteAll(okFlush, okDirect) ==
    /\ cpc = "write"
    /\ LET r == BufWriteAll(wbuf, outFile, chunk, okFlush, okDirect)
       IN  /\ wbuf' = r.wbuf
           /\ outFile' = r.file
           /\ IF r.err
              THEN /\ result' = "WriteError"
                   /\ failed' = failed \cup {"write"}
                   /\ cpc' = "return"
              ELSE /\ cpc' = "read"
                   /\ UNCHANGED <<result, failed>>
    /\ UNCHANGED <<key, plain, rc4, pos, inOpenable, keyReadable, keyFile, outExists,
                   existed, created, chunk, exit, stderr, stdout>>
    /\ UNCHANGED libonly

\* main returns: the BufWriter is dropped, which flushes it and discards the
\* result of the flush, and the process exits with the status of main's
\* result, an Err being printed first
Return(okFlush) ==
    /\ cpc = "return"
    /\ LET f == FlushBuf(wbuf, outFile, okFlush)
           res == result
       IN  /\ wbuf' = f.wbuf
           /\ outFile' = f.file
           /\ failed' = IF f.err THEN failed \cup {"flush"} ELSE failed
           /\ result' = res
           /\ stderr' = IF res = "Ok" THEN stderr ELSE stderr \o <<"Error: ", res>>
           /\ exit' = IF res = "Ok" THEN "success" ELSE "failure"
    /\ cpc' = "exited"
    /\ UNCHANGED <<key, plain, rc4, pos, inOpenable, keyReadable, keyFile, outExists,
                   existed, created, chunk, stdout>>
    /\ UNCHANGED libonly

NextCLI ==
    \/ OpenInput
    \/ ReadKey
    \/ CreateOutput
    \/ NewCipher
    \/ \E n \in 1 .. BufLen : Read(n)
    \/ ReadEof
    \/ ReadErr
    \/ XorChunk
    \/ \E okFlush \in BOOLEAN, okDirect \in BOOLEAN : WriteAll(okFlush, okDirect)
    \/ \E okFlush \in BOOLEAN : Return(okFlush)

SpecCLI == InitCLI /\ [][NextCLI]_vars

(***************************************************************************)
(* The textbook RC4, as the specification words it: the statement the      *)
(* library is compared with.                                               *)
(***************************************************************************)
Identity == [x \in 0 .. 255 |-> x]

\* step i of the KSA: j = (j + S[i] + key[i mod key_length]) mod 256, swap S[i], S[j]
RefKsaStep(it, k) ==
    LET j2 == (it.j + it.S[it.i] + k[(it.i % Len(k)) + 1]) % 256
    IN  [S |-> [it.S EXCEPT ![it.i] = it.S[j2], ![j2] = it.S[it.i]],
         j |-> j2, i |-> it.i + 1]

\* steps it.i .. hi-1 of the KSA
RECURSIVE RefKsaRun(_, _, _)
RefKsaRun(it, k, hi) ==
    IF it.i >= hi THEN it
    ELSE IF it.i + 1 = hi THEN RefKsaStep(it, k)
    ELSE RefKsaRun(RefKsaRun(it, k, (it.i + hi) \div 2), k, hi)

\* the permutation the KSA derives from a non-empty key
RefKSA(k) == RefKsaRun([S |-> Identity, j |-> 0, i |-> 0], k, 256).S

\* one PRGA step and the XOR of its byte into data[n]
RefPrgaStep(it) ==
    LET i2 == (it.i + 1) % 256
        j2 == (it.j + it.S[i2]) % 256
        S2 == [it.S EXCEPT ![i2] = it.S[j2], ![j2] = it.S[i2]]
        ks == S2[(S2[i2] + S2[j2]) % 256]
    IN  [S |-> S2, i |-> i2, j |-> j2, n |-> it.n + 1,
         data |-> [it.data EXCEPT ![it.n] = Xor8(it.data[it.n], ks)]]

RECURSIVE RefPrgaRun(_, _)
RefPrgaRun(it, hi) ==
    IF it.n >= hi THEN it
    ELSE IF it.n + 1 = hi THEN RefPrgaStep(it)
    ELSE RefPrgaRun(RefPrgaRun(it, (it.n + hi) \div 2), hi)

\* data XORed with the keystream that starts at permutation S, counters 0
RefApply(S, data) ==
    RefPrgaRun([S |-> S, i |-> 0, j |-> 0, n |-> 1, data |-> data], Len(data) + 1).data

RefEncrypt(k, data) == RefApply(RefKSA(k), data)

\* the key repeated cyclically and cut to exactly 256 bytes
Cycle256(k) == [x \in 1 .. 256 |-> k[((x - 1) % Len(k)) + 1]]

IsPermutation(state) ==
    /\ DOMAIN state = 0 .. 255
    /\ {state[x] : x \in 0 .. 255} = 0 .. 255

\* RC4::new(key) has returned and no keystream byte was generated yet
Fresh == pc = "stream" /\ calls = 0

\* the whole input went through xor_keystream_with, in one or more calls
Complete == pc = "stream" /\ calls > 0 /\ pos = Len(plain)

(***************************************************************************)
(* Claims about the library, checked under Spec.                           *)
(***************************************************************************)

\* C1: for a non-empty key, RC4::new(key) followed by one xor_keystream_with
\* over the whole data leaves the reference RC4 ciphertext in data; the three
\* test vectors come out as the tests expect.
C1_ReferenceCiphertext ==
    (Complete /\ calls = 1 /\ Len(key) > 0) =>
        /\ output = RefEncrypt(key, plain)
        /\ (key = KeyKey /\ plain = TextPlaintext) => output = CipherPlaintext
        /\ (key = KeyWiki /\ plain = TextPedia) => output = CipherPedia
        /\ (key = KeySecret /\ plain = TextAttack) => output = CipherAttack

C1_Witness ==
    /\ Complete /\ calls = 1
    /\ key = KeySecret /\ plain = TextAttack
    /\ output = CipherAttack

\* C2: decrypting what one instance produced with a second, fresh instance
\* built from the same key gives back the original plaintext.
C2_RoundTrip == pc = "decrypted" => back = plain

C2_Witness ==
    /\ pc = "decrypted" /\ calls = 1
    /\ Len(plain) > BufLen
    /\ output # plain
    /\ back = plain

\* C3: however the input was split into chunks (empty ones included), the
\* concatenated output and the final cipher state are those of one call of
\* xor_keystream_with over the whole input.
C3_ChunkingIrrelevant ==
    Complete =>
        LET whole == xor_keystream_with(new(key), plain)
        IN  output = whole.data /\ rc4 = whole.self

C3_Witness ==
    /\ Complete /\ calls >= 3 /\ sawEmpty
    /\ Len(plain) > BufLen
    /\ output # plain

\* C4: once RC4::new has returned, the permutation array holds each of the
\* 256 byte values exactly once, whatever calls were made since.
C4_AlwaysPermutation == pc # "new" => IsPermutation(rc4.state)

C4_Witness ==
    /\ pc = "stream" /\ calls >= 2 /\ pos > BufLen
    /\ rc4.state # Identity
    /\ rc4.state # new(key).state

\* C5: a key longer than 256 bytes gives the initial state, and the output,
\* of its first 256 bytes.
C5_LongKeyTruncated ==
    Len(key) > N =>
        /\ Fresh => rc4 = new(SubSeq(key, 1, N))
        /\ Complete => output = xor_keystream_with(new(SubSeq(key, 1, N)), plain).data

C5_Witness ==
    /\ Len(key) > N /\ key[N + 1] # key[1]
    /\ Complete /\ Len(plain) > 0
    /\ output # plain

\* C8: a key shorter than 256 bytes is cycled: the KSA computes
\* j = (j + S[i] + key[i mod key_length]) mod 256 and swaps S[i], S[j] for
\* i = 0..255 from the identity, which is also what the key repeated to
\* exactly 256 bytes gives.
C8_ShortKeyCycles ==
    (Fresh /\ Len(key) > 0 /\ Len(key) < N) =>
        /\ rc4.state = RefKSA(key)
        /\ rc4 = new(Cycle256(key))

C8_Witness ==
    /\ Fresh /\ key = KeyKey
    /\ rc4.state # Identity
    /\ rc4.state = RefKSA(Cycle256(key))

\* C9: from every reachable cipher state a keystream-generation call stays
\* within 0..255 for the counters, every index and the byte returned, moves
\* cursor_i to (cursor_i + 1) mod 256, changes the state, and is not the
\* same transition as the call that follows it.
C9_PrgaAdvances ==
    pc # "new" =>
        LET r1 == pseudo_random_generation(rc4)
            r2 == pseudo_random_generation(r1.self)
        IN  /\ rc4.i \in Bytes /\ rc4.j \in Bytes
            /\ r1.self.i = (rc4.i + 1) % 256
            /\ r1.self.i \in Bytes /\ r1.self.j \in Bytes
            /\ r1.index \in Bytes /\ r1.byte \in Bytes
            /\ r1.self # rc4
            /\ <<rc4, r1.self>> # <<r1.self, r2.self>>

C9_Witness ==
    /\ pc = "stream" /\ calls > 0
    /\ rc4.i = 255
    /\ pseudo_random_generation(rc4).self.i = 0

CliOutputCorrect ==
    (cpc = "exited" /\ failed = {}) =>
        /\ exit = "success"
        /\ outFile = xor_keystream_with(new(keyFile), plain).data

\* C6: after any failed I/O operation (open, key read, create, read, write,
\* or the write made when the buffered writer is finally flushed) the run
\* ends with a message on stderr and a failure status, never with success.
C6_FailuresExitNonZero ==
    (cpc = "exited" /\ failed # {}) => (exit = "failure" /\ stderr # <<>>)

\* C7: an output path that exists makes the run fail and keeps its content;
\* the output file is created only after the input was opened and the key
\* read, so a failure of either leaves no output file behind.
C7_ExclusiveCreate ==
    /\ existed =>
        /\ outExists /\ outFile = OldContent /\ ~created
        /\ cpc = "exited" => exit = "failure"
    /\ created => (inOpenable /\ keyReadable /\ key = keyFile)
    /\ (~inOpenable \/ ~keyReadable) => (~created /\ outExists = existed)

C7_Witness ==
    /\ cpc = "exited" /\ existed
    /\ inOpenable /\ keyReadable
    /\ "create" \in failed
    /\ outFile = OldContent
    /\ exit = "failure"

====
